---------------------------- MODULE Spec2Model ----------------------------
(***************************************************************************)
(* Model of src/src/interop/serializers.py: the converters between the     *)
(* interoperability server's JSON dictionaries and the ROS messages.       *)
(*                                                                         *)
(* Representation.                                                         *)
(*  - A Python dict is a function whose DOMAIN is its key set.             *)
(*  - A JSON scalar is a tagged tuple: <<"num", n>>, <<"str", s>>,         *)
(*    <<"bool", b>> or <<"none">>.                                         *)
(*  - A real number is a fixed-point integer counting 1/Scale of the unit   *)
(*    (feet, metres), rounded to nearest as a float operation rounds.      *)
(*  - A call's outcome is [status |-> "ok", value |-> v] or                *)
(*    [status |-> "raise", error |-> e]; a raised call returns no value.   *)
(***************************************************************************)
EXTENDS Integers, Sequences, FiniteSets, TLC

VARIABLES
    pc,     \* position of the caller: "call" before the call, "done" after
    frame,  \* frame id handed to the deserializers
    data,   \* the dictionary handed to / produced by a converter
    msg,    \* the ROS message(s) handed to a serializer
    ret,    \* outcome of the last call
    iso,    \* the pair of timestamp texts handed to iso8601_to_rostime
    time    \* outcomes of the iso8601_to_rostime calls made so far

vars == <<pc, frame, data, msg, ret, iso, time>>

-----------------------------------------------------------------------------
(* Bounds of the explored inputs.                                          *)

MaxPts == 2      \* longest point list
MaxZones == 2    \* longest fly-zone list
MaxObs == 2      \* longest obstacle list
MaxStamp == 1    \* largest reading of the ROS clock
Scale == 100     \* fixed-point steps per unit
MaxDays == 1     \* timestamps lie within this many days of the epoch
YawRes == 2      \* orientations per degree of rotation
MaxPixels == 4   \* most pixels of an image
MaxMeters == 3   \* largest distance of the dense range, in metres

-----------------------------------------------------------------------------
(* Values and outcomes.                                                    *)

None == <<"none">>
Num(n) == <<"num", n>>
Str(s) == <<"str", s>>
Bool(b) == <<"bool", b>>

Ok(v) == [status |-> "ok", value |-> v]
Raise(e) == [status |-> "raise", error |-> e]
Pending == [status |-> "pending"]
Unused == <<"unused">>

\* d[k] of a Python dict: KeyError when the key is absent.
GetItem(d, k) == IF k \in DOMAIN d THEN Ok(d[k]) ELSE Raise("KeyError")

\* Nearest fixed-point value of a / b (b > 0).
RoundDiv(a, b) == (2 * a + b) \div (2 * b)

\* float(x): a number is kept, None is a TypeError, other text a ValueError.
float(x) ==
    IF x[1] = "num" THEN Ok(x[2])
    ELSE IF x[1] = "bool" THEN Ok(IF x[2] THEN Scale ELSE 0)
    ELSE IF x[1] = "none" THEN Raise("TypeError")
    ELSE Raise("ValueError")

\* 0.3048 = FeetNum / FeetDen.
FeetNum == 381
FeetDen == 1250

\* As meters_to_feet, but multiplying by 0.3048.
meters_to_feet_times(m) ==
    LET f == float(m)
    IN  IF f.status = "ok" THEN Ok(RoundDiv(f.value * FeetNum, FeetDen)) ELSE f

meters_to_feet(m) ==
    LET f == float(m)
    IN  IF f.status = "ok" THEN Ok(RoundDiv(f.value * FeetDen, FeetNum)) ELSE f

feet_to_meters_swapped(ft) ==
    LET f == float(ft)
    IN  IF f.status = "ok" THEN Ok(RoundDiv(f.value * FeetDen, FeetNum)) ELSE f

feet_to_meters(ft) ==
    LET f == float(ft)
    IN  IF f.status = "ok" THEN Ok(RoundDiv(f.value * FeetNum, FeetDen)) ELSE f

-----------------------------------------------------------------------------
(* ROS messages built by the deserializers.                                *)

Header(stamp, frame_id) == [stamp |-> stamp, frame_id |-> frame_id]

\* geographic_msgs/GeoPoint with its fields at their defaults.
GeoPoint == [latitude |-> Num(0), longitude |-> Num(0), altitude |-> 0]

-----------------------------------------------------------------------------
(* MissionDeserializer                                                     *)

\* Loop of lines 104-108: one polygon point per boundary point, appended.
RECURSIVE boundary_loop_reversed(_, _, _)
boundary_loop_reversed(pts, i, points) ==
    IF i > Len(pts) THEN points
    ELSE boundary_loop_reversed(pts, i + 1,
            <<[GeoPoint EXCEPT !.latitude = pts[i]["latitude"],
                               !.longitude = pts[i]["longitude"]]>> \o points)

RECURSIVE boundary_loop(_, _, _)
boundary_loop(pts, i, points) ==
    IF i > Len(pts) THEN points
    ELSE boundary_loop(pts, i + 1,
            Append(points, [GeoPoint EXCEPT !.latitude = pts[i]["latitude"],
                                            !.longitude = pts[i]["longitude"]]))

\* Loop of lines 96-110 from zone i on; flyzones holds the zones built so far.
RECURSIVE flyzone_loop(_, _, _, _)
flyzone_loop(zones, i, header, flyzones) ==
    IF i > Len(zones) THEN Ok([flyzones |-> flyzones])
    ELSE LET zone == zones[i]
             max_alt == feet_to_meters(zone["altitude_msl_max"])
             min_alt == feet_to_meters(zone["altitude_msl_min"])
         IN  IF max_alt.status # "ok" THEN max_alt
             ELSE IF min_alt.status # "ok" THEN min_alt
             ELSE flyzone_loop(zones, i + 1, header,
                    Append(flyzones,
                           [zone |-> [header |-> header,
                                      polygon |-> [points |->
                                          boundary_loop(zone["boundary_pts"], 1, <<>>)]],
                            max_alt |-> max_alt.value,
                            min_alt |-> min_alt.value]))

get_flyzone(zones, frame_id, stamp) ==
    flyzone_loop(zones, 1, Header(stamp, frame_id), <<>>)

\* Loops of lines 135-144 and 167-176: one GeoPoint per entry, appended.
RECURSIVE point_loop(_, _, _)
point_loop(pts, i, points) ==
    IF i > Len(pts) THEN Ok(points)
    ELSE LET altitude == feet_to_meters(pts[i]["altitude_msl"])
         IN  IF altitude.status # "ok" THEN altitude
             ELSE point_loop(pts, i + 1,
                    Append(points, [latitude |-> pts[i]["latitude"],
                                    longitude |-> pts[i]["longitude"],
                                    altitude |-> altitude.value]))

get_waypoints(pts, frame_id, stamp) ==
    LET loop == point_loop(pts, 1, <<>>)
    IN  IF loop.status # "ok" THEN loop
        ELSE Ok([header |-> Header(stamp, frame_id), waypoints |-> loop.value])

get_search_grid(pts, frame_id, stamp) ==
    LET loop == point_loop(pts, 1, <<>>)
    IN  IF loop.status # "ok" THEN loop
        ELSE Ok([header |-> Header(stamp, frame_id),
                 polygon |-> [points |-> loop.value]])

get_point_msg(d, frame_id, stamp) ==
    Ok([header |-> Header(stamp, frame_id),
        position |-> [GeoPoint EXCEPT !.latitude = d["latitude"],
                                      !.longitude = d["longitude"]]])

\* Keys read by MissionDeserializer.from_dict, in the order it reads them.
MissionKeys == <<"fly_zones", "search_grid_points", "mission_waypoints",
                 "air_drop_pos", "off_axis_odlc_pos",
                 "emergent_last_known_pos", "home_pos">>

\* Statement k of lines 221-228: look the key up, then convert the section.
MissionPart(d, frame_id, stamps, k) ==
    LET section == GetItem(d, MissionKeys[k])
    IN  IF section.status # "ok" THEN section
        ELSE IF k = 1 THEN get_flyzone(section.value, frame_id, stamps[k])
        ELSE IF k = 2 THEN get_search_grid(section.value, frame_id, stamps[k])
        ELSE IF k = 3 THEN get_waypoints(section.value, frame_id, stamps[k])
        ELSE get_point_msg(section.value, frame_id, stamps[k])

\* As mission_from, but an error hands back the messages built so far.
RECURSIVE mission_from_partial(_, _, _, _, _)
mission_from_partial(d, frame_id, stamps, k, parts) ==
    IF k > Len(MissionKeys) THEN Ok(parts)
    ELSE LET part == MissionPart(d, frame_id, stamps, k)
         IN  IF part.status # "ok" THEN Ok(parts)
             ELSE mission_from_partial(d, frame_id, stamps, k + 1,
                                       Append(parts, part.value))

\* Lines 221-231 from statement k on; parts holds the messages built so far.
\* The tuple is returned only after all seven statements have completed.
RECURSIVE mission_from(_, _, _, _, _)
mission_from(d, frame_id, stamps, k, parts) ==
    IF k > Len(MissionKeys) THEN Ok(parts)
    ELSE LET part == MissionPart(d, frame_id, stamps, k)
         IN  IF part.status # "ok" THEN part
             ELSE mission_from(d, frame_id, stamps, k + 1,
                               Append(parts, part.value))

Mission_from_dict(d, frame_id, stamps) == mission_from(d, frame_id, stamps, 1, <<>>)


-----------------------------------------------------------------------------
(* ObstaclesDeserializer                                                   *)

\* geographic_msgs-style cylinder with its fields at their defaults.
GeoCylinder == [center |-> GeoPoint, radius |-> 0, height |-> 0]

\* Loop of lines 259-270 from entry i on.
RECURSIVE cylinder_loop(_, _, _)
cylinder_loop(objs, i, cylinders) ==
    IF i > Len(objs) THEN Ok(cylinders)
    ELSE LET obj == objs[i]
             radius == feet_to_meters(obj["cylinder_radius"])
             height == feet_to_meters(obj["cylinder_height"])
         IN  IF radius.status # "ok" THEN radius
             ELSE IF height.status # "ok" THEN height
             ELSE cylinder_loop(objs, i + 1,
                    Append(cylinders,
                           [GeoCylinder EXCEPT
                               !.radius = radius.value,
                               !.height = height.value,
                               !.center.latitude = obj["latitude"],
                               !.center.longitude = obj["longitude"]]))

\* As Obstacles_from_dict, but the list key is required.
Obstacles_from_dict_required(d, frame_id, lifetime, stamp) ==
    LET section == GetItem(d, "stationary_obstacles")
        loop == IF section.status = "ok"
                THEN cylinder_loop(section.value, 1, <<>>) ELSE section
    IN  IF loop.status # "ok" THEN loop
        ELSE Ok([header |-> Header(stamp, frame_id), cylinders |-> loop.value])

Obstacles_from_dict(d, frame_id, lifetime, stamp) ==
    LET loop == IF "stationary_obstacles" \in DOMAIN d
                THEN cylinder_loop(d["stationary_obstacles"], 1, <<>>)
                ELSE Ok(<<>>)
    IN  IF loop.status # "ok" THEN loop
        ELSE Ok([header |-> Header(stamp, frame_id), cylinders |-> loop.value])

-----------------------------------------------------------------------------
(* ObjectSerializer                                                        *)

\* Fields of the Object message, in slot order.
ObjectSlots == <<"type", "latitude", "longitude", "orientation", "shape",
                 "background_color", "alphanumeric_color", "alphanumeric",
                 "description", "autonomous">>

\* Enumeration message types.
ENUMERATION_TYPES == {"Color", "Orientation", "Shape", "ObjectType"}

\* type(getattr(msg, attribute)) of a freshly constructed Object.
SlotType ==
    [type |-> "ObjectType", latitude |-> "float", longitude |-> "float",
     orientation |-> "Orientation", shape |-> "Shape",
     background_color |-> "Color", alphanumeric_color |-> "Color",
     alphanumeric |-> "str", description |-> "str", autonomous |-> "bool"]

\* The tokens of each enumeration message type.
Tokens ==
    [ObjectType |-> {"standard", "emergent"}, Orientation |-> {"n", "se"},
     Shape |-> {"star", "circle"}, Color |-> {"orange", "black"}]

\* An enumeration message of type cls holding token.
Enum(cls, token) == [cls |-> cls, data |-> token]

\* Object(): every field at its default.
Object ==
    [type |-> Enum("ObjectType", ""), latitude |-> 0, longitude |-> 0,
     orientation |-> Enum("Orientation", ""), shape |-> Enum("Shape", ""),
     background_color |-> Enum("Color", ""),
     alphanumeric_color |-> Enum("Color", ""),
     alphanumeric |-> "", description |-> "", autonomous |-> FALSE]

\* cls(value) for an enumeration message type: the token is decoded by exact
\* match, anything else is rejected.
EnumDecode(cls, value) ==
    IF value[1] = "str" /\ value[2] \in Tokens[cls]
    THEN Ok(Enum(cls, value[2]))
    ELSE Raise("UnknownEnumValue")

\* str(value) and bool(value) of a text or a boolean.
str(value) ==
    IF value[1] = "str" THEN value[2]
    ELSE IF value[2] THEN "True" ELSE "False"

bool(value) ==
    IF value[1] = "bool" THEN value[2]
    ELSE IF value[1] = "num" THEN value[2] # 0
    ELSE value[2] # ""

\* attribute_type(value), line 359.
Cast(attribute_type, value) ==
    IF attribute_type \in ENUMERATION_TYPES THEN EnumDecode(attribute_type, value)
    ELSE IF attribute_type = "float" THEN float(value)
    ELSE IF attribute_type = "str" THEN Ok(str(value))
    ELSE Ok(bool(value))

\* Lines 330-334 with the enumeration message left as it is.
Serialized_raw(attribute_type, value) ==
    IF attribute_type \in ENUMERATION_TYPES THEN <<"msg", value.cls, value.data>>
    ELSE IF attribute_type = "float" THEN Num(value)
    ELSE IF attribute_type = "str" THEN Str(value)
    ELSE Bool(value)

\* Lines 330-334: the dictionary value of a field; an enumeration message
\* gives its data, any other value is stored as it is.
Serialized(attribute_type, value) ==
    IF attribute_type \in ENUMERATION_TYPES THEN Str(value.data)
    ELSE IF attribute_type = "float" THEN Num(value)
    ELSE IF attribute_type = "str" THEN Str(value)
    ELSE Bool(value)

\* Loop of lines 329-334 from slot i on; d holds the entries set so far.
RECURSIVE from_msg_loop(_, _, _)
from_msg_loop(m, i, d) ==
    IF i > Len(ObjectSlots) THEN d
    ELSE LET attribute == ObjectSlots[i]
         IN  from_msg_loop(m, i + 1,
                [k \in DOMAIN d \cup {attribute} |->
                    IF k = attribute
                    THEN Serialized(SlotType[attribute], m[attribute])
                    ELSE d[k]])

Object_from_msg(m) == Ok(from_msg_loop(m, 1, [k \in {} |-> None]))

\* As from_dict_loop, but a value that cannot be cast leaves its field alone.
RECURSIVE from_dict_loop_lenient(_, _, _)
from_dict_loop_lenient(d, i, m) ==
    IF i > Len(ObjectSlots) THEN Ok(m)
    ELSE LET attribute == ObjectSlots[i]
         IN  IF attribute \in DOMAIN d /\ d[attribute][1] # "none"
             THEN LET cast == Cast(SlotType[attribute], d[attribute])
                  IN  IF cast.status # "ok"
                      THEN from_dict_loop_lenient(d, i + 1, m)
                      ELSE from_dict_loop_lenient(d, i + 1,
                              [m EXCEPT ![attribute] = cast.value])
             ELSE from_dict_loop_lenient(d, i + 1, m)

\* As from_dict_loop, but every slot is looked up in the dictionary.
RECURSIVE from_dict_loop_required(_, _, _)
from_dict_loop_required(d, i, m) ==
    IF i > Len(ObjectSlots) THEN Ok(m)
    ELSE LET attribute == ObjectSlots[i]
             value == GetItem(d, attribute)
         IN  IF value.status # "ok" THEN value
             ELSE IF value.value[1] # "none"
             THEN LET cast == Cast(SlotType[attribute], value.value)
                  IN  IF cast.status # "ok" THEN cast
                      ELSE from_dict_loop_required(d, i + 1,
                              [m EXCEPT ![attribute] = cast.value])
             ELSE from_dict_loop_required(d, i + 1, m)

\* As from_dict_loop, but a null value is handed to the cast of a number.
RECURSIVE from_dict_loop_null_cast(_, _, _)
from_dict_loop_null_cast(d, i, m) ==
    IF i > Len(ObjectSlots) THEN Ok(m)
    ELSE LET attribute == ObjectSlots[i]
         IN  IF attribute \in DOMAIN d
             THEN IF d[attribute][1] = "none"
                  THEN IF SlotType[attribute] = "float" THEN Raise("TypeError")
                       ELSE from_dict_loop_null_cast(d, i + 1, m)
                  ELSE LET cast == Cast(SlotType[attribute], d[attribute])
                       IN  IF cast.status # "ok" THEN cast
                           ELSE from_dict_loop_null_cast(d, i + 1,
                                   [m EXCEPT ![attribute] = cast.value])
             ELSE from_dict_loop_null_cast(d, i + 1, m)

\* Loop of lines 351-359 from slot i on; m is the message as set so far.
\* The message is returned only after the loop has completed.
RECURSIVE from_dict_loop(_, _, _)
from_dict_loop(d, i, m) ==
    IF i > Len(ObjectSlots) THEN Ok(m)
    ELSE LET attribute == ObjectSlots[i]
         IN  IF attribute \in DOMAIN d /\ d[attribute][1] # "none"
             THEN LET cast == Cast(SlotType[attribute], d[attribute])
                  IN  IF cast.status # "ok" THEN cast
                      ELSE from_dict_loop(d, i + 1,
                              [m EXCEPT ![attribute] = cast.value])
             ELSE from_dict_loop(d, i + 1, m)

Object_from_dict(d) == from_dict_loop(d, 1, Object)

-----------------------------------------------------------------------------
(* iso8601_to_rostime                                                      *)
(*                                                                         *)
(* A timestamp text is a record of its fields: day (days from 1970-01-01), *)
(* hour, minute, second, micro and offset, the offset <<"none">> or        *)
(* <<"utc", minutes>> for a written +hh:mm / -hh:mm / Z.  A datetime is    *)
(* [sec, us, tzinfo]: the seconds and microseconds of its wall-clock       *)
(* reading counted from 1970-01-01T00:00:00 and <<"naive">> or             *)
(* <<"tz", seconds>>.  A timedelta is [days, seconds, microseconds],       *)
(* normalised as datetime.timedelta is.                                    *)

SecondsPerDay == 86400
MicrosPerSecond == 1000000
NanosPerMicro == 1000

\* dateutil.parser.parse: the datetime a text spells, or ValueError.
parse(text) ==
    IF "day" \notin DOMAIN text THEN Raise("ValueError")
    ELSE Ok([sec |-> text.day * SecondsPerDay + text.hour * 3600
                     + text.minute * 60 + text.second,
             us |-> text.micro,
             tzinfo |-> IF text.offset[1] = "none" THEN <<"naive">>
                        ELSE <<"tz", text.offset[2] * 60>>])

\* t.utcoffset() is falsy: None of a naive datetime, or a zero offset.
NoUtcOffset(t) == t.tzinfo[1] = "naive" \/ t.tzinfo[2] = 0

\* Lines 56-57 with the test dropped: the reading is always taken as UTC.
assume_utc_always(t) == [t EXCEPT !.tzinfo = <<"tz", 0>>]

\* Lines 56-57: a datetime without an offset is taken as UTC.
assume_utc(t) == IF NoUtcOffset(t) THEN [t EXCEPT !.tzinfo = <<"tz", 0>>] ELSE t

\* datetime.utcfromtimestamp(0).replace(tzinfo=tzutc())
epoch == [sec |-> 0, us |-> 0, tzinfo |-> <<"tz", 0>>]

\* a - b of two aware datetimes, as a normalised timedelta.
Minus(a, b) ==
    LET s == (a.sec - a.tzinfo[2]) - (b.sec - b.tzinfo[2])
              + ((a.us - b.us) \div MicrosPerSecond)
    IN  [days |-> s \div SecondsPerDay,
         seconds |-> s % SecondsPerDay,
         microseconds |-> (a.us - b.us) % MicrosPerSecond]

\* int(dt.total_seconds()): the sum days * 86400 + seconds + microseconds /
\* 10^6, cut towards zero.
int_total_seconds(dt) ==
    LET whole == dt.days * SecondsPerDay + dt.seconds
    IN  IF whole < 0 /\ dt.microseconds > 0 THEN whole + 1 ELSE whole

iso8601_to_rostime(text) ==
    LET parsed == parse(text)
    IN  IF parsed.status # "ok" THEN parsed
        ELSE LET t == assume_utc(parsed.value)
                 dt == Minus(t, epoch)
             IN  Ok([secs |-> int_total_seconds(dt),
                     nsecs |-> dt.microseconds * NanosPerMicro])

-----------------------------------------------------------------------------
(* TelemetrySerializer                                                     *)
(*                                                                         *)
(* An orientation is the unit quaternion of a rotation about the vertical  *)
(* axis, held as its angle in steps of 1/YawRes degree; an angle in        *)
(* radians is held in the same steps.                                      *)

HalfTurn == 180 * YawRes

\* tf.transformations.euler_from_quaternion: roll, pitch and yaw, the yaw in
\* [-pi, pi].
euler_from_quaternion(q) ==
    LET a == q.angle
    IN  <<0, 0, IF a > HalfTurn THEN a - 2 * HalfTurn
                ELSE IF a < -HalfTurn THEN a + 2 * HalfTurn
                ELSE a>>

\* np.rad2deg: fixed-point degrees of an angle in radians.
rad2deg(r) == RoundDiv(r * Scale, YawRes)

\* Line 299 without the wrap into one turn.
compass_heading_unwrapped(yaw) == 450 * Scale - rad2deg(yaw)

\* Line 299.
compass_heading(yaw) == (450 * Scale - rad2deg(yaw)) % (360 * Scale)

Telemetry_from_msg(navsat_msg, altitude_msg, pose_msg) ==
    LET yaw == euler_from_quaternion(pose_msg.pose.orientation)[3]
        altitude_msl == meters_to_feet(Num(altitude_msg.amsl))
    IN  Ok([latitude |-> float(Num(navsat_msg.latitude)).value,
            longitude |-> float(Num(navsat_msg.longitude)).value,
            altitude_msl |-> altitude_msl.value,
            uas_heading |-> compass_heading(yaw)])

-----------------------------------------------------------------------------
(* ObjectImageSerializer                                                   *)
(*                                                                         *)
(* An Image message is [kind, height, width, encoding, data] and an OpenCV *)
(* image [rows, cols, channels, data], the data a sequence of bytes, row   *)
(* after row and channel after channel.  A PNG stream is a sequence of     *)
(* bytes: a signature, the width, the height, the number of channels, and  *)
(* then the scanlines in RGB order, each byte after the first pixel of a   *)
(* row written as its difference to the byte one pixel before (PNG's Sub   *)
(* filter).                                                                *)

PngSignature == 137

NoImage == [none |-> TRUE]

\* Channels of an image encoding.
NumChannels(encoding) == IF encoding \in {"mono8", "8UC1"} THEN 1 ELSE 3

\* CvBridge.imgmsg_to_cv2 with the default, passthrough, encoding.
imgmsg_to_cv2(m) ==
    [rows |-> m.height, cols |-> m.width,
     channels |-> NumChannels(m.encoding), data |-> m.data]

\* CvBridge.cv2_to_imgmsg with the default, passthrough, encoding; what is
\* no image raises.
cv2_to_imgmsg(img) ==
    IF "rows" \notin DOMAIN img THEN Raise("TypeError")
    ELSE Ok([kind |-> "Image", height |-> img.rows, width |-> img.cols,
             encoding |-> IF img.channels = 1 THEN "8UC1" ELSE "8UC3",
             data |-> img.data])

\* The bytes of a three-channel image with the first and third channel of
\* every pixel exchanged (BGR <-> RGB); a one-channel image is left alone.
SwapChannels(bytes, channels) ==
    IF channels = 1 THEN bytes
    ELSE [i \in 1..Len(bytes) |->
             bytes[((i - 1) \div 3) * 3 + (2 - ((i - 1) % 3)) + 1]]

\* PNG's Sub filter over rows of rowlen bytes, and its inverse.
SubFilter(bytes, channels, rowlen) ==
    [i \in 1..Len(bytes) |->
        IF (i - 1) % rowlen < channels THEN bytes[i]
        ELSE (bytes[i] - bytes[i - channels]) % 256]

RECURSIVE Unfiltered(_, _, _, _)
Unfiltered(bytes, i, channels, rowlen) ==
    IF (i - 1) % rowlen < channels THEN bytes[i]
    ELSE (bytes[i] + Unfiltered(bytes, i - channels, channels, rowlen)) % 256

SubUnfilter(bytes, channels, rowlen) ==
    [i \in 1..Len(bytes) |-> Unfiltered(bytes, i, channels, rowlen)]

\* cv2.imencode(".png", img, compression)[1].tostring()
imencode_png(img) ==
    <<PngSignature, img.cols, img.rows, img.channels>>
    \o SubFilter(SwapChannels(img.data, img.channels), img.channels,
                 img.cols * img.channels)

\* The stream is a PNG of one or three channels with all its scanlines.
IsPng(buf) ==
    /\ Len(buf) >= 4
    /\ buf[1] = PngSignature
    /\ buf[2] >= 1
    /\ buf[3] >= 1
    /\ buf[4] \in {1, 3}
    /\ Len(buf) = 4 + buf[2] * buf[3] * buf[4]

\* The luminance of a pixel given blue, green and red.
Gray(b, g, r) == (114 * b + 587 * g + 299 * r + 500) \div 1000

\* cv2.imdecode(buf, flags): the image in BGR order with three channels
\* (IMREAD_COLOR) or with one (IMREAD_GRAYSCALE); no image when the stream
\* cannot be decoded.
imdecode(buf, flags) ==
    IF ~IsPng(buf) THEN NoImage
    ELSE LET cols == buf[2]
             rows == buf[3]
             channels == buf[4]
             body == SubSeq(buf, 5, Len(buf))
             bgr == SwapChannels(SubUnfilter(body, channels, cols * channels),
                                 channels)
             Blue(p) == IF channels = 1 THEN bgr[p] ELSE bgr[3 * p - 2]
             Green(p) == IF channels = 1 THEN bgr[p] ELSE bgr[3 * p - 1]
             Red(p) == IF channels = 1 THEN bgr[p] ELSE bgr[3 * p]
         IN  IF flags = "IMREAD_COLOR"
             THEN [rows |-> rows, cols |-> cols, channels |-> 3,
                   data |-> [i \in 1..(3 * rows * cols) |->
                               LET p == (i - 1) \div 3 + 1
                               IN  IF (i - 1) % 3 = 0 THEN Blue(p)
                                   ELSE IF (i - 1) % 3 = 1 THEN Green(p)
                                   ELSE Red(p)]]
             ELSE [rows |-> rows, cols |-> cols, channels |-> 1,
                   data |-> [p \in 1..(rows * cols) |->
                               IF channels = 1 THEN bgr[p]
                               ELSE Gray(Blue(p), Green(p), Red(p))]]

RECURSIVE ObjectImage_from_raw(_, _)

\* ObjectImageSerializer.from_msg: a CompressedImage is decompressed first;
\* the image is then encoded as PNG.
ObjectImage_from_msg(m) ==
    LET image == IF m.kind = "CompressedImage"
                 THEN ObjectImage_from_raw(m.data, FALSE)
                 ELSE Ok(m)
    IN  IF image.status # "ok" THEN image
        ELSE Ok(imencode_png(imgmsg_to_cv2(image.value)))

\* As ObjectImage_from_raw, but the stream is decoded as a grayscale image.
ObjectImage_from_raw_grayscale(raw, compress) ==
    LET img == imdecode(raw, "IMREAD_GRAYSCALE")
        m == cv2_to_imgmsg(img)
    IN  IF m.status # "ok" THEN m
        ELSE IF compress
        THEN LET png == ObjectImage_from_msg(m.value)
             IN  IF png.status # "ok" THEN png
                 ELSE Ok([kind |-> "CompressedImage", format |-> "png",
                          data |-> png.value])
        ELSE m

\* ObjectImageSerializer.from_raw
ObjectImage_from_raw(raw, compress) ==
    LET img == imdecode(raw, "IMREAD_COLOR")
        m == cv2_to_imgmsg(img)
    IN  IF m.status # "ok" THEN m
        ELSE IF compress
        THEN LET png == ObjectImage_from_msg(m.value)
             IN  IF png.status # "ok" THEN png
                 ELSE Ok([kind |-> "CompressedImage", format |-> "png",
                          data |-> png.value])
        ELSE m

-----------------------------------------------------------------------------
(* Inputs of the deserializers.                                            *)

Frames == {"map"}
Stamps == 0..MaxStamp

\* The clock readings of the seven rospy.get_rostime() calls of one
\* MissionDeserializer.from_dict: the clock never runs backwards.
StampSeqs == {s \in [1..7 -> Stamps] : \A i \in 1..6 : s[i] <= s[i + 1]}

Feet(n) == Num(n * Scale)

\* Sample coordinates (micro-degrees), pairwise distinct.
Coords == {1, 2}
Lat(c) == Num(38142544 + c)
Lon(c) == Num(-76434088 - c)

CoordSeqs == UNION {[1..n -> Coords] : n \in 0..MaxPts}

BoundaryPt(c, i) == [latitude |-> Lat(c), longitude |-> Lon(c), order |-> Num(i)]
AltPt(c, i, alt) == [latitude |-> Lat(c), longitude |-> Lon(c), order |-> Num(i),
                     altitude_msl |-> alt]
NamedPt(c) == [latitude |-> Lat(c), longitude |-> Lon(c)]

BoundaryLists == {[i \in 1..Len(s) |-> BoundaryPt(s[i], i)] : s \in CoordSeqs}
PointLists == {[i \in 1..Len(s) |-> AltPt(s[i], i, Feet(200))] : s \in CoordSeqs}

Zone(pts, max) == [altitude_msl_max |-> max, altitude_msl_min |-> Feet(100),
                   boundary_pts |-> pts]
ZoneLists ==
    UNION {[1..n -> {Zone(pts, Feet(200)) : pts \in BoundaryLists}] : n \in 0..MaxZones}

\* The mission of test_mission_deserializer.
BaseMission ==
    [id |-> Num(1), active |-> Bool(TRUE),
     air_drop_pos |-> NamedPt(1),
     fly_zones |-> <<Zone(<<BoundaryPt(1, 1), BoundaryPt(2, 2)>>, Feet(200))>>,
     home_pos |-> NamedPt(2),
     mission_waypoints |-> <<AltPt(1, 1, Feet(200))>>,
     off_axis_odlc_pos |-> NamedPt(1),
     emergent_last_known_pos |-> NamedPt(2),
     search_grid_points |-> <<AltPt(1, 1, Feet(200))>>]

\* The sections that hold altitudes, and the same sections with an altitude
\* that float() cannot convert.
AltSections == {"fly_zones", "search_grid_points", "mission_waypoints"}

Malformed(k) ==
    IF k = "fly_zones" THEN <<Zone(<<BoundaryPt(1, 1)>>, None)>>
    ELSE IF k = "search_grid_points" THEN <<AltPt(1, 1, Str("high"))>>
    ELSE <<AltPt(1, 1, Feet(200)), AltPt(2, 2, None)>>

RequiredKeys == {MissionKeys[k] : k \in 1..Len(MissionKeys)}

\* Missions that differ from the test's in their fly zones, in their point
\* lists, or in which keys are present and which sections are malformed.
ZoneMissions == {[BaseMission EXCEPT !.fly_zones = z] : z \in ZoneLists}
PointMissions ==
    {[BaseMission EXCEPT !.search_grid_points = g, !.mission_waypoints = w] :
        g \in PointLists, w \in PointLists}
KeyMissions ==
    {[k \in (DOMAIN BaseMission \ RequiredKeys) \cup P |->
        IF k \in M THEN Malformed(k) ELSE BaseMission[k]] :
        P \in SUBSET RequiredKeys, M \in SUBSET AltSections}

MissionDicts == ZoneMissions \cup PointMissions \cup KeyMissions

Obstacle(c, radius, height) ==
    [latitude |-> Lat(c), longitude |-> Lon(c),
     cylinder_radius |-> radius, cylinder_height |-> height]
ObstacleEntries ==
    {Obstacle(c, r, h) : c \in Coords, r \in {Feet(300), Feet(100)},
                         h \in {Feet(750), Feet(400), None}}
ObstacleLists == UNION {[1..n -> ObstacleEntries] : n \in 0..MaxObs}

ObstacleDicts ==
    {[stationary_obstacles |-> l] : l \in ObstacleLists}
    \cup {[stationary_obstacles |-> l, moving_obstacles |-> <<>>] : l \in ObstacleLists}
    \cup {[moving_obstacles |-> <<>>], [k \in {} |-> <<>>]}

\* The object of test_object_deserializer, field by field.
Sample ==
    [type |-> Str("standard"), latitude |-> Num(381478),
     longitude |-> Num(-764275), orientation |-> Str("n"),
     shape |-> Str("star"), background_color |-> Str("orange"),
     alphanumeric_color |-> Str("black"), alphanumeric |-> Str("C"),
     description |-> Str(""), autonomous |-> Bool(FALSE)]

\* Other values a field may arrive with: another valid one, null, and one
\* its cast does not take as meant.
Odd(a) ==
    IF a = "type" THEN {Str("emergent"), None, Str("not_a_type")}
    ELSE IF a = "orientation" THEN {Str("se"), None, Str("N")}
    ELSE IF a = "shape" THEN {Str("circle"), None, Str("Star")}
    ELSE IF a = "background_color" THEN {Str("black"), None, Str("mauve")}
    ELSE IF a = "alphanumeric_color" THEN {Str("orange"), None, Str("")}
    ELSE IF a \in {"latitude", "longitude"} THEN {Num(0), None, Str("north")}
    ELSE IF a = "autonomous" THEN {Bool(TRUE), None, Str("false")}
    ELSE {Str("A"), None, Bool(TRUE)}

SlotSet == {ObjectSlots[i] : i \in 1..Len(ObjectSlots)}
OddEntries == UNION {{<<a, v>> : v \in Odd(a)} : a \in SlotSet}
ExtraKeys == {{}, {"id", "user"}}
SlotPrefixes == {{ObjectSlots[j] : j \in 1..i} : i \in 0..Len(ObjectSlots)}

\* The dictionary with the keys S and X: a key of X is no field of Object,
\* a key named by odds holds that value, any other key the sample's.  The
\* inputs are every set of fields at the sample's values, one odd value next
\* to the first i fields, and two odd values among all fields.
ObjectDict(S, odds, X) ==
    [k \in S \cup X |->
        IF k \in X THEN Num(1)
        ELSE IF \E o \in odds : o[1] = k
             THEN (CHOOSE o \in odds : o[1] = k)[2]
             ELSE Sample[k]]

ObjectDicts ==
    {ObjectDict(S, {}, X) : S \in SUBSET SlotSet, X \in ExtraKeys}
    \cup UNION {{ObjectDict(S \cup {o[1]}, {o}, X) : S \in SlotPrefixes, X \in ExtraKeys} :
                   o \in OddEntries}
    \cup UNION {{ObjectDict(SlotSet, {o1, o2}, {}) :
                    o2 \in {o \in OddEntries : o[1] # o1[1]}} : o1 \in OddEntries}

\* Object messages whose enumerations hold tokens, and the default Object.
ObjectMsgs ==
    [type : {Enum("ObjectType", t) : t \in Tokens["ObjectType"]},
     latitude : {0, 381478}, longitude : {-764275},
     orientation : {Enum("Orientation", t) : t \in Tokens["Orientation"]},
     shape : {Enum("Shape", t) : t \in Tokens["Shape"]},
     background_color : {Enum("Color", t) : t \in Tokens["Color"]},
     alphanumeric_color : {Enum("Color", t) : t \in Tokens["Color"]},
     alphanumeric : {"", "C"}, description : {"", "near the runway"},
     autonomous : BOOLEAN]
    \cup {Object}

NoMsg == [none |-> TRUE]
EmptyDict == [k \in {} |-> None]

-----------------------------------------------------------------------------
(* The calls.                                                              *)

InitMission ==
    /\ pc = "call"
    /\ frame \in Frames
    /\ data \in MissionDicts
    /\ msg = Unused
    /\ ret = Pending
    /\ iso = Unused
    /\ time = Unused

MissionFromDict ==
    /\ pc = "call"
    /\ \E stamps \in StampSeqs : ret' = Mission_from_dict(data, frame, stamps)
    /\ pc' = "done"
    /\ UNCHANGED <<frame, data, msg, iso, time>>

NextMission == MissionFromDict

SpecMission == InitMission /\ [][NextMission]_vars

Lifetime == 1

InitObstacles ==
    /\ pc = "call"
    /\ frame \in Frames
    /\ data \in ObstacleDicts
    /\ msg = Unused
    /\ ret = Pending
    /\ iso = Unused
    /\ time = Unused

ObstaclesFromDict ==
    /\ pc = "call"
    /\ \E stamp \in Stamps : ret' = Obstacles_from_dict(data, frame, Lifetime, stamp)
    /\ pc' = "done"
    /\ UNCHANGED <<frame, data, msg, iso, time>>

NextObstacles == ObstaclesFromDict

SpecObstacles == InitObstacles /\ [][NextObstacles]_vars

-----------------------------------------------------------------------------
(* Properties of MissionDeserializer.from_dict.                            *)

IsNum(x) == x[1] = "num"

\* points carries, entry by entry, the latitude and longitude of entries.
SameLatLon(points, entries) ==
    /\ Len(points) = Len(entries)
    /\ \A i \in 1..Len(entries) :
          /\ points[i].latitude = entries[i]["latitude"]
          /\ points[i].longitude = entries[i]["longitude"]

\* Section k of d holds only altitudes that are numbers.
SectionWellFormed(d, k) ==
    IF k = 1 THEN \A i \in 1..Len(d["fly_zones"]) :
                      /\ IsNum(d["fly_zones"][i]["altitude_msl_max"])
                      /\ IsNum(d["fly_zones"][i]["altitude_msl_min"])
    ELSE IF k \in {2, 3} THEN \A i \in 1..Len(d[MissionKeys[k]]) :
                                  IsNum(d[MissionKeys[k]][i]["altitude_msl"])
    ELSE TRUE

HasRequiredKeys(d) == RequiredKeys \subseteq DOMAIN d

\* Position in reading order of the first required key that d lacks.
FirstAbsent(d) ==
    CHOOSE k \in 1..Len(MissionKeys) :
        /\ MissionKeys[k] \notin DOMAIN d
        /\ \A j \in 1..(k - 1) : MissionKeys[j] \in DOMAIN d

\* C1: for a mission dictionary with all required keys (and convertible
\* altitudes) from_dict returns one FlyZone per entry of fly_zones in the same
\* order, the i-th polygon point of each zone carrying the latitude and
\* longitude of the i-th boundary point, and likewise the i-th search-grid
\* point and the i-th waypoint those of the i-th input entry: nothing is
\* added, dropped, duplicated or reordered.
C1_OrderPreserved ==
    (pc = "done" /\ HasRequiredKeys(data)) =>
        /\ (\A k \in 1..3 : SectionWellFormed(data, k)) => ret.status = "ok"
        /\ ret.status = "ok" =>
              LET flyzones == ret.value[1].flyzones
                  zones == data["fly_zones"]
              IN  /\ Len(flyzones) = Len(zones)
                  /\ \A i \in 1..Len(zones) :
                        SameLatLon(flyzones[i].zone.polygon.points,
                                   zones[i]["boundary_pts"])
                  /\ SameLatLon(ret.value[2].polygon.points,
                                data["search_grid_points"])
                  /\ SameLatLon(ret.value[3].waypoints,
                                data["mission_waypoints"])

\* Two different zones, the second with two different boundary points, and
\* the call has returned.
C1_Witness ==
    /\ pc = "done"
    /\ HasRequiredKeys(data)
    /\ ret.status = "ok"
    /\ Len(data["fly_zones"]) = 2
    /\ Len(data["fly_zones"][1]["boundary_pts"]) = 1
    /\ Len(data["fly_zones"][2]["boundary_pts"]) = 2
    /\ data["fly_zones"][2]["boundary_pts"][1]["latitude"]
          # data["fly_zones"][2]["boundary_pts"][2]["latitude"]

\* C2 as stated: whenever a required key is absent the call fails with the
\* missing-key error (KeyError), whatever the other keys hold.
C2_MissingKeyIsKeyError ==
    (pc = "done" /\ ~HasRequiredKeys(data)) =>
        (ret.status = "raise" /\ ret.error = "KeyError")

\* C2, amended: whenever a required key is absent the call fails and returns
\* no bundle, whole or partial; the error is the missing-key error when every
\* section read before the first absent key converts, and otherwise the
\* conversion error of such a section.
C2_MissingKeyFails ==
    (pc = "done" /\ ~HasRequiredKeys(data)) =>
        /\ ret.status = "raise"
        /\ "value" \notin DOMAIN ret
        /\ IF \A j \in 1..(FirstAbsent(data) - 1) : SectionWellFormed(data, j)
           THEN ret.error = "KeyError"
           ELSE ret.error \in {"TypeError", "ValueError"}

\* Only the key read last is absent: six sections were built, then the
\* lookup failed.
C2_Witness ==
    /\ pc = "done"
    /\ DOMAIN data \cap RequiredKeys = RequiredKeys \ {"home_pos"}
    /\ \A j \in 1..3 : SectionWellFormed(data, j)
    /\ ret.status = "raise"
    /\ ret.error = "KeyError"

-----------------------------------------------------------------------------
(* Properties of ObstaclesDeserializer.from_dict.                          *)

HasObstacles(d) == "stationary_obstacles" \in DOMAIN d

\* m is the fixed-point value nearest to ft feet times 0.3048.
IsFeetInMeters(m, ft) ==
    LET diff == m * 10000 - ft * 3048
    IN  2 * diff <= 10000 /\ 2 * diff >= -10000

\* C3: a dictionary without the stationary_obstacles key yields, without an
\* error, an obstacle list with zero cylinders.
C3_AbsentKeyIsEmpty ==
    (pc = "done" /\ ~HasObstacles(data)) =>
        (ret.status = "ok" /\ Len(ret.value.cylinders) = 0)

C3_Witness ==
    /\ pc = "done"
    /\ ~HasObstacles(data)
    /\ "moving_obstacles" \in DOMAIN data
    /\ ret.status = "ok"

\* C4: from_dict returns one cylinder per entry of stationary_obstacles, in
\* input order; the i-th cylinder's radius and height are the i-th entry's
\* cylinder_radius and cylinder_height in feet times 0.3048, and its center
\* holds the entry's latitude and longitude unchanged.
C4_CylinderPerEntry ==
    (/\ pc = "done"
     /\ HasObstacles(data)
     /\ \A i \in 1..Len(data["stationary_obstacles"]) :
           /\ IsNum(data["stationary_obstacles"][i]["cylinder_radius"])
           /\ IsNum(data["stationary_obstacles"][i]["cylinder_height"])) =>
        /\ ret.status = "ok"
        /\ LET objs == data["stationary_obstacles"]
               cylinders == ret.value.cylinders
           IN  /\ Len(cylinders) = Len(objs)
               /\ \A i \in 1..Len(objs) :
                     /\ IsFeetInMeters(cylinders[i].radius,
                                       objs[i]["cylinder_radius"][2])
                     /\ IsFeetInMeters(cylinders[i].height,
                                       objs[i]["cylinder_height"][2])
                     /\ cylinders[i].center.latitude = objs[i]["latitude"]
                     /\ cylinders[i].center.longitude = objs[i]["longitude"]

\* Two obstacles that differ in place, radius and height, and the call has
\* returned.
C4_Witness ==
    /\ pc = "done"
    /\ HasObstacles(data)
    /\ ret.status = "ok"
    /\ Len(data["stationary_obstacles"]) = 2
    /\ data["stationary_obstacles"][1]["latitude"]
          # data["stationary_obstacles"][2]["latitude"]
    /\ data["stationary_obstacles"][1]["cylinder_radius"]
          # data["stationary_obstacles"][2]["cylinder_radius"]
    /\ data["stationary_obstacles"][1]["cylinder_height"]
          # data["stationary_obstacles"][2]["cylinder_height"]

-----------------------------------------------------------------------------
(* ObjectSerializer: the calls and their properties.                       *)

InitObject ==
    /\ \/ pc = "call" /\ msg = NoMsg /\ data \in ObjectDicts
       \/ pc = "serialize" /\ msg \in ObjectMsgs /\ data = EmptyDict
    /\ frame = Unused
    /\ ret = Pending
    /\ iso = Unused
    /\ time = Unused

\* ObjectSerializer.from_msg; its dictionary is then handed to from_dict.
ObjectFromMsg ==
    /\ pc = "serialize"
    /\ data' = Object_from_msg(msg).value
    /\ pc' = "call"
    /\ UNCHANGED <<frame, msg, ret, iso, time>>

ObjectFromDict ==
    /\ pc = "call"
    /\ ret' = Object_from_dict(data)
    /\ pc' = "done"
    /\ UNCHANGED <<frame, data, msg, iso, time>>

NextObject == ObjectFromMsg \/ ObjectFromDict

SpecObject == InitObject /\ [][NextObject]_vars

EnumSlots == {a \in SlotSet : SlotType[a] \in ENUMERATION_TYPES}
FloatSlots == {a \in SlotSet : SlotType[a] = "float"}

IsNull(v) == v[1] = "none"
IsToken(a, v) == v[1] = "str" /\ v[2] \in Tokens[SlotType[a]]

\* Field a of d holds a value that is not null.
Holds(d, a) == a \in DOMAIN d /\ ~IsNull(d[a])

Acceptable(a, v) ==
    IF a \in EnumSlots THEN IsToken(a, v)
    ELSE IF a \in FloatSlots THEN IsNum(v)
    ELSE TRUE

\* C6: from_dict is a partial update: an input dictionary that holds the keys
\* S (with values their casts take) yields, without an error, a record whose
\* every field outside S is as in a freshly constructed Object; the input
\* {"alphanumeric": "C"} changes alphanumeric only.
C6_PartialUpdate ==
    (pc = "done" /\ \A a \in SlotSet : Holds(data, a) => Acceptable(a, data[a])) =>
        /\ ret.status = "ok"
        /\ \A a \in SlotSet \ DOMAIN data : ret.value[a] = Object[a]
        /\ DOMAIN data = {"alphanumeric"} /\ data["alphanumeric"] = Str("C") =>
              ret.value = [Object EXCEPT !.alphanumeric = "C"]

C6_Witness ==
    /\ pc = "done"
    /\ DOMAIN data = {"alphanumeric"}
    /\ data["alphanumeric"] = Str("C")
    /\ ret.status = "ok"
    /\ ret.value.alphanumeric = "C"
    /\ ret.value.type = Object.type

\* The categorical fields of Object message m hold tokens of their sets.
ValidObject(m) ==
    "type" \in DOMAIN m /\ \A a \in EnumSlots : m[a].data \in Tokens[SlotType[a]]

\* C7: for an Object whose categorical fields hold valid values, from_msg
\* gives a dictionary with exactly one key per field, the token of each
\* categorical field and the unchanged value of every other field, and
\* from_dict of that dictionary is field for field the Object again.
C7_RoundTrip ==
    (pc \in {"call", "done"} /\ ValidObject(msg)) =>
        /\ DOMAIN data = SlotSet
        /\ \A a \in SlotSet :
              data[a] = IF a \in EnumSlots THEN Str(msg[a].data)
                        ELSE IF a \in FloatSlots THEN Num(msg[a])
                        ELSE IF a = "autonomous" THEN Bool(msg[a])
                        ELSE Str(msg[a])
        /\ pc = "done" => (ret.status = "ok" /\ ret.value = msg)

\* An Object away from the defaults in every kind of field has made the trip.
C7_Witness ==
    /\ pc = "done"
    /\ ValidObject(msg)
    /\ msg.type.data = "emergent"
    /\ msg.latitude # 0
    /\ msg.alphanumeric = "C"
    /\ msg.autonomous
    /\ ret.status = "ok"

-----------------------------------------------------------------------------
(* iso8601_to_rostime: the calls and their properties.                     *)

Offsets == {<<"none">>, <<"utc", 0>>, <<"utc", 60>>, <<"utc", -60>>,
            <<"utc", 330>>, <<"utc", -480>>}

Texts ==
    [day : (-MaxDays)..MaxDays, hour : {0, 23}, minute : {0, 59},
     second : {0, 59}, micro : {0, 1, 500000, 999999}, offset : Offsets]

\* A text that is no date.
Garbage == [garbage |-> TRUE]

\* 1970-01-01T00:00:00Z
EpochText == [day |-> 0, hour |-> 0, minute |-> 0, second |-> 0, micro |-> 0,
              offset |-> <<"utc", 0>>]

Parseable(text) == "day" \in DOMAIN text

\* Whole seconds from the epoch to the instant a text denotes; a text without
\* an offset denotes its reading in UTC.
Instant(text) ==
    text.day * 86400 + text.hour * 3600 + text.minute * 60 + text.second
    - (IF text.offset[1] = "none" THEN 0 ELSE text.offset[2] * 60)

\* The text that denotes the instant of text at the offset of o minutes.
Respell(text, o) ==
    LET w == Instant(text) + o * 60
    IN  [day |-> w \div 86400, hour |-> (w % 86400) \div 3600,
         minute |-> (w % 3600) \div 60, second |-> w % 60,
         micro |-> text.micro, offset |-> <<"utc", o>>]

\* A text, and with it the same instant spelled at another offset, or the
\* epoch, or no date at all.
TextPairs ==
    UNION {{<<a, Respell(a, o[2])>> : o \in Offsets \ {<<"none">>}}
           \cup {<<a, EpochText>>, <<a, Garbage>>} : a \in Texts}
    \cup {<<Garbage, EpochText>>}

InitTime ==
    /\ pc = "call"
    /\ iso \in TextPairs
    /\ time = <<>>
    /\ frame = Unused
    /\ data = Unused
    /\ msg = Unused
    /\ ret = Pending

\* One call of iso8601_to_rostime, on the next text of the pair.
Iso8601ToRostime ==
    /\ pc = "call"
    /\ time' = Append(time, iso8601_to_rostime(iso[Len(time) + 1]))
    /\ pc' = IF Len(time) + 1 = Len(iso) THEN "done" ELSE "call"
    /\ UNCHANGED <<frame, data, msg, ret, iso>>

NextTime == Iso8601ToRostime

SpecTime == InitTime /\ [][NextTime]_vars

\* C8: for every parseable timestamp, before or after the epoch and at any
\* microsecond inside its second, secs is the floor of the duration since
\* the epoch in seconds and nsecs its fractional microseconds times 1000, so
\* that 0 <= nsecs < 10^9 and secs + nsecs / 10^9 is the duration.
C8_FloorSeconds ==
    \A i \in 1..Len(time) :
        Parseable(iso[i]) =>
            /\ time[i].status = "ok"
            /\ time[i].value.secs = Instant(iso[i])
            /\ time[i].value.nsecs = iso[i].micro * 1000
            /\ time[i].value.nsecs >= 0
            /\ time[i].value.nsecs < 1000000000

\* C9: the result depends only on the instant denoted: two texts that spell
\* one instant with different explicit offsets give the same secs and nsecs,
\* and a text without an offset gives what the same text with +00:00 gives.
C9_InstantOnly ==
    (pc = "done" /\ Parseable(iso[1]) /\ Parseable(iso[2])) =>
        /\ (/\ iso[1].offset[1] = "utc"
            /\ iso[2].offset[1] = "utc"
            /\ Instant(iso[1]) = Instant(iso[2])
            /\ iso[1].micro = iso[2].micro) => time[1] = time[2]
        /\ (/\ iso[1].offset[1] = "none"
            /\ iso[2] = [iso[1] EXCEPT !.offset = <<"utc", 0>>]) => time[1] = time[2]

\* One instant spelled on two different days, east and west of Greenwich.
C9_Witness ==
    /\ pc = "done"
    /\ Parseable(iso[1])
    /\ Parseable(iso[2])
    /\ iso[1].offset = <<"utc", 330>>
    /\ iso[2].offset = <<"utc", -480>>
    /\ iso[1].day # iso[2].day
    /\ Instant(iso[1]) = Instant(iso[2])
    /\ time[1].status = "ok"
    /\ time[2].status = "ok"

-----------------------------------------------------------------------------
(* TelemetrySerializer: the call and its properties.                       *)

\* The messages of test_telemetry_serializer, at every orientation about
\* the vertical axis and at two altitudes.
TelemetryMsgs ==
    [navsat : [latitude : {38149 * Scale}, longitude : {-76432 * Scale}],
     altitude : [amsl : {0, (3048 * Scale) \div 100}],
     pose : [pose : [orientation : [angle : (-2 * HalfTurn)..(2 * HalfTurn)]]]]

InitTelemetry ==
    /\ pc = "call"
    /\ msg \in TelemetryMsgs
    /\ ret = Pending
    /\ frame = Unused
    /\ data = Unused
    /\ iso = Unused
    /\ time = Unused

TelemetryFromMsg ==
    /\ pc = "call"
    /\ ret' = Telemetry_from_msg(msg.navsat, msg.altitude, msg.pose)
    /\ pc' = "done"
    /\ UNCHANGED <<frame, data, msg, iso, time>>

NextTelemetry == TelemetryFromMsg

SpecTelemetry == InitTelemetry /\ [][NextTelemetry]_vars

\* Fixed-point degrees of the yaw of the pose handed to the call.
YawDegrees == rad2deg(euler_from_quaternion(msg.pose.pose.orientation)[3])

\* C10: uas_heading is (450 - yaw in degrees) mod 360: it differs from
\* 450 - yaw by a whole number of turns and, for every yaw in [-180, 180],
\* lies in [0, 360), never 360 and never negative; for the identity
\* quaternion it is 90.0.
C10_CompassHeading ==
    pc = "done" =>
        /\ ret.status = "ok"
        /\ YawDegrees >= -180 * Scale
        /\ YawDegrees <= 180 * Scale
        /\ ret.value.uas_heading >= 0
        /\ ret.value.uas_heading < 360 * Scale
        /\ \E turns \in {0, 1} :
              ret.value.uas_heading = 450 * Scale - YawDegrees - turns * 360 * Scale
        /\ msg.pose.pose.orientation.angle = 0 => ret.value.uas_heading = 90 * Scale

\* A yaw of 90 degrees: 450 - 90 is a full turn, and the heading is 0.
C10_Witness ==
    /\ pc = "done"
    /\ msg.pose.pose.orientation.angle = 90 * YawRes
    /\ ret.status = "ok"
    /\ ret.value.uas_heading = 0

-----------------------------------------------------------------------------
(* Calls of ObjectImageSerializer: from_msg on an image message (raw or    *)
(* compressed), then from_raw on the bytes it returned, as                 *)
(* test_object_image_serializer does.                                      *)

\* Pixels in the order the message stores them; no channel equals another.
Palette == {<<0, 0, 0>>, <<255, 7, 200>>, <<7, 255, 1>>}

GrayLevels == {0, 7, 255}

Shapes == {s \in (1..MaxPixels) \X (1..MaxPixels) : s[1] * s[2] <= MaxPixels}

\* The bytes of the pixels px, channel after channel.
Interleaved(px) ==
    [i \in 1..(3 * Len(px)) |-> px[(i - 1) \div 3 + 1][((i - 1) % 3) + 1]]

ColorImages ==
    UNION {{[kind |-> "Image", height |-> s[1], width |-> s[2],
             encoding |-> e, data |-> Interleaved(px)] :
               px \in [1..(s[1] * s[2]) -> Palette], e \in {"bgr8", "8UC3"}} :
           s \in Shapes}

MonoImages ==
    UNION {{[kind |-> "Image", height |-> s[1], width |-> s[2],
             encoding |-> "mono8", data |-> px] :
               px \in [1..(s[1] * s[2]) -> GrayLevels]} :
           s \in Shapes}

\* Byte streams that are no PNG of one or three channels.
BrokenStreams ==
    {<< >>, <<1, 2, 3>>, <<PngSignature, 1, 1, 3, 5>>,
     <<PngSignature, 1, 1, 2, 5, 6>>, <<66, 1, 1, 1, 5>>}

\* Decodable streams (of colour and of grayscale images) and broken ones.
Streams ==
    {imencode_png(imgmsg_to_cv2(m)) :
        m \in {c \in ColorImages : c.encoding = "bgr8"} \cup MonoImages}
    \cup BrokenStreams

CompressedImages ==
    {[kind |-> "CompressedImage", format |-> "png", data |-> b] : b \in Streams}

InitImage ==
    /\ pc = "encode"
    /\ msg \in ColorImages \cup MonoImages \cup CompressedImages
    /\ data = << >>
    /\ ret = Pending
    /\ frame = Unused
    /\ iso = Unused
    /\ time = Unused

ImageFromMsg ==
    /\ pc = "encode"
    /\ LET png == ObjectImage_from_msg(msg)
       IN  IF png.status = "ok"
           THEN /\ data' = png.value
                /\ pc' = "decode"
                /\ UNCHANGED ret
           ELSE /\ ret' = png
                /\ pc' = "done"
                /\ UNCHANGED data
    /\ UNCHANGED <<frame, msg, iso, time>>

ImageFromRaw ==
    /\ pc = "decode"
    /\ \E compress \in BOOLEAN : ret' = ObjectImage_from_raw(data, compress)
    /\ pc' = "done"
    /\ UNCHANGED <<frame, data, msg, iso, time>>

NextImage == ImageFromMsg \/ ImageFromRaw

SpecImage == InitImage /\ [][NextImage]_vars

\* The image a returned message holds; a CompressedImage is decoded.
Decoded(m) ==
    IF m.kind = "CompressedImage" THEN imdecode(m.data, "IMREAD_COLOR")
    ELSE imgmsg_to_cv2(m)

SamePixels(a, b) ==
    /\ "rows" \in DOMAIN a
    /\ "rows" \in DOMAIN b
    /\ a.rows = b.rows
    /\ a.cols = b.cols
    /\ a.channels = b.channels
    /\ a.data = b.data

Decodable(b) == "rows" \in DOMAIN imdecode(b, "IMREAD_COLOR")

\* C11: the image path is lossless: from_raw(from_msg(p)) has the dimensions
\* and the pixel values of every raw 8-bit three-channel image p, and for
\* every decodable byte stream b, decode(encode(decode(b))) equals decode(b)
\* pixel for pixel.
C11_Lossless ==
    pc = "done" =>
        /\ (msg.kind = "Image" /\ NumChannels(msg.encoding) = 3) =>
              /\ ret.status = "ok"
              /\ SamePixels(Decoded(ret.value), imgmsg_to_cv2(msg))
        /\ (msg.kind = "CompressedImage" /\ Decodable(msg.data)) =>
              /\ ret.status = "ok"
              /\ SamePixels(Decoded(ret.value),
                            imdecode(msg.data, "IMREAD_COLOR"))

\* A raw two by two colour image of more than one colour went through
\* from_msg and from_raw and came back as an Image message.
C11_Witness ==
    /\ pc = "done"
    /\ msg.kind = "Image"
    /\ msg.encoding = "bgr8"
    /\ msg.height = 2
    /\ msg.width = 2
    /\ msg.data[1] # msg.data[4]
    /\ msg.data[1] # msg.data[3]
    /\ ret.status = "ok"
    /\ ret.value.kind = "Image"
    /\ data # << >>

-----------------------------------------------------------------------------
(* Calls of the unit conversions: meters_to_feet on a distance, then       *)
(* feet_to_meters on what it returned.                                     *)

\* Fixed-point distances m >= 0: every step of a dense range and some
\* larger ones.
Meters ==
    (0..(MaxMeters * Scale))
    \cup {100 * Scale, 228 * Scale + 60, 1000 * Scale + 1, 5000 * Scale + 99}

InitUnits ==
    /\ pc = "to_feet"
    /\ msg \in {Num(m) : m \in Meters}
    /\ data = Pending
    /\ ret = Pending
    /\ frame = Unused
    /\ iso = Unused
    /\ time = Unused

MetersToFeet ==
    /\ pc = "to_feet"
    /\ data' = meters_to_feet(msg)
    /\ pc' = "to_meters"
    /\ UNCHANGED <<frame, msg, ret, iso, time>>

FeetToMeters ==
    /\ pc = "to_meters"
    /\ ret' = IF data.status = "ok" THEN feet_to_meters(Num(data.value))
              ELSE data
    /\ pc' = "done"
    /\ UNCHANGED <<frame, data, msg, iso, time>>

NextUnits == MetersToFeet \/ FeetToMeters

SpecUnits == InitUnits /\ [][NextUnits]_vars

Abs(x) == IF x < 0 THEN -x ELSE x

\* C12: feet_to_meters and meters_to_feet are an inverse pair: for all
\* m >= 0, feet_to_meters(meters_to_feet(m)) equals m within the tolerance
\* of the arithmetic (one step of the fixed-point numbers), and neither
\* call raises.
C12_InversePair ==
    pc = "done" =>
        /\ data.status = "ok"
        /\ ret.status = "ok"
        /\ Abs(ret.value - msg[2]) <= 1

\* A distance whose value in feet is no whole number of steps went there
\* and back.
C12_Witness ==
    /\ pc = "done"
    /\ msg[2] > 0
    /\ (msg[2] * FeetDen) % FeetNum # 0
    /\ data.status = "ok"
    /\ data.value > msg[2]
    /\ ret.status = "ok"

-----------------------------------------------------------------------------
(* Two calls of ObjectSerializer.from_dict, on a pair of dictionaries; ret *)
(* holds the outcomes of the calls made so far.                            *)

ExtraNames == {"id", "user"}

\* The entries of d whose key is a field of Object and whose value is not
\* null.
Core(d) == [k \in {a \in SlotSet : Holds(d, a)} |-> d[k]]

\* d with the extra keys holding v.
WithExtras(d, v) ==
    [k \in DOMAIN d \cup ExtraNames |-> IF k \in ExtraNames THEN v ELSE d[k]]

\* d with every field of Object it lacks held as null.
Nulled(d) ==
    [k \in DOMAIN d \cup SlotSet |-> IF k \in DOMAIN d THEN d[k] ELSE None]

\* d without the first field it holds: a dictionary that differs from d in
\* an entry the record is made from (d itself when it holds none).
Dropped(d) ==
    LET held == {i \in 1..Len(ObjectSlots) : Holds(d, ObjectSlots[i])}
    IN  IF held = {} THEN d
        ELSE LET first == CHOOSE i \in held : \A j \in held : i <= j
             IN  [k \in DOMAIN d \ {ObjectSlots[first]} |-> d[k]]

\* Dictionaries to call from_dict with next to d.
Variants(d) ==
    {d, Core(d), WithExtras(d, Num(7)), WithExtras(d, None),
     WithExtras(Core(d), Str("judge")), Nulled(d),
     Nulled(WithExtras(Core(d), Str("judge"))), Dropped(d),
     ObjectDict(SlotSet, {}, {})}

InitObjectPair ==
    /\ pc = "pair"
    /\ \E d \in ObjectDicts : \E v \in Variants(d) : data = <<d, v>>
    /\ msg = NoMsg
    /\ ret = << >>
    /\ frame = Unused
    /\ iso = Unused
    /\ time = Unused

\* The next call: from_dict on the dictionary not yet deserialized.
ObjectFromDictOfPair ==
    /\ pc = "pair"
    /\ ret' = Append(ret, Object_from_dict(data[Len(ret) + 1]))
    /\ pc' = IF Len(ret) + 1 = Len(data) THEN "done" ELSE "pair"
    /\ UNCHANGED <<frame, data, msg, iso, time>>

NextObjectPair == ObjectFromDictOfPair

SpecObjectPair == InitObjectPair /\ [][NextObjectPair]_vars

\* d1 and d2 hold the same fields of Object with the same non-null values.
Agree(d1, d2) ==
    \A a \in SlotSet :
        /\ Holds(d1, a) <=> Holds(d2, a)
        /\ Holds(d1, a) => d1[a] = d2[a]

SameOutcome(r1, r2) ==
    /\ r1.status = r2.status
    /\ r1.status = "ok" => r1.value = r2.value
    /\ r1.status = "raise" => r1.error = r2.error

\* C13: the record from_dict returns depends only on the entries of the input
\* whose key is a field of Object and whose value is not null: two
\* dictionaries that agree on these, and differ in extra keys or in fields
\* absent in one and null in the other, give equal outcomes; every field not
\* so held is left at its default, and no error is raised when the held
\* values are ones their casts take.
C13_DependsOnHeldFields ==
    (pc = "done" /\ Agree(data[1], data[2])) =>
        /\ SameOutcome(ret[1], ret[2])
        /\ \A i \in 1..2 :
              /\ ret[i].status = "ok" =>
                    \A a \in SlotSet :
                        ~Holds(data[i], a) => ret[i].value[a] = Object[a]
              /\ (\A a \in SlotSet :
                     Holds(data[i], a) => Acceptable(a, data[i][a])) =>
                    ret[i].status = "ok"

\* The first dictionary holds a null field the second lacks, the second
\* extra keys the first lacks, and both gave the same record, which is not
\* the default one.
C13_Witness ==
    /\ pc = "done"
    /\ Agree(data[1], data[2])
    /\ \E a \in SlotSet :
          /\ a \in DOMAIN data[1]
          /\ IsNull(data[1][a])
          /\ a \notin DOMAIN data[2]
    /\ ExtraNames \subseteq DOMAIN data[2]
    /\ ExtraNames \cap DOMAIN data[1] = {}
    /\ ret[1].status = "ok"
    /\ ret[2].status = "ok"
    /\ ret[1].value = ret[2].value
    /\ ret[1].value # Object

=============================================================================
